---------------------------- MODULE Spec2Model ----------------------------
(***************************************************************************)
(* Password hash records of go-hash: the encoding engine (src/hash/hash.go)*)
(* and its argon2 plug-in (src/unnamed/part_000).                          *)
(*                                                                         *)
(* Strings and byte slices are both sequences of bytes (0..255), as in Go: *)
(* "$" is 36, ":" is 58, "=" is 61.  A uint32 that can exceed TLC's        *)
(* integers is kept as two 16-bit limbs [hi, lo].                          *)
(*                                                                         *)
(* The two cryptographic primitives of the libraries (Argon2, HMAC-SHA256) *)
(* are modelled by a deterministic absorb/squeeze function of exactly the  *)
(* arguments the code passes to them; everything else (base64, Split,      *)
(* ParseInt, the integer conversions, the slicing) is computed as the      *)
(* code computes it.  The host is taken to have at least two cores, so     *)
(* that argonThreads >= 1.                                                 *)
(***************************************************************************)
EXTENDS Integers, Sequences, FiniteSets, TLC

VARIABLES
    HashImplementations, \* the registry: a set of [id, impl] entries
    argonThreads,        \* uint8(runtime.NumCPU() / 2), fixed at start-up
    hash,                \* the record string the caller currently holds
    origin,              \* where that record came from
    result,              \* the last call and what it returned
    pc,                  \* per thread: position inside VerifyHash
    loc                  \* per thread: the locals of the call in progress

vars == <<HashImplementations, argonThreads, hash, origin, result, pc, loc>>

---------------------------------------------------------------------------
(* Bounds of the model *)

NumPasswords == 2
NumSalts == 2
MaxCPU == 2
NumThreads == 2

---------------------------------------------------------------------------
(* Program constants *)

SaltSize == 10
MinHashParts == 5
argonNumParameters == 3
argonDefaultHashSize == 32
sha256Size == 32

DefaultAlgo == <<97, 114, 103, 111, 110, 50>>   \* "argon2"
hashID == <<97, 114, 103, 111, 110, 50>>        \* "argon2"
Separator == 36                                  \* "$"
ParameterSeparator == 58                         \* ":"
padChar == 61                                    \* "="
ModeI == <<105>>                                 \* "i"
ModeID == <<105, 100>>                           \* "id"
argonDefaultMode == ModeID
argonModi == <<ModeI, ModeID>>

U32(h, l) == [hi |-> h, lo |-> l]
argonDefaultMemoryPasses == U32(0, 4)            \* 4
argonDefaultMemorySize == U32(1, 0)              \* 64 * 1024

nil == <<>>
noError == "nil"
errUnknownHashImpl == "unknown hash implementation"
errBadHashFormat == "invalid hash format"
errBadParameters == "malformed gohash parameters"
errUnknownHashMod == "unknown gohash modus"
errCorruptInput == "illegal base64 data"

---------------------------------------------------------------------------
(* Integer conversions *)

\* F applied to the value of v: v is evaluated once, however often F uses it.
Bind(v, F(_)) == CHOOSE y \in {F(x) : x \in {v}} : TRUE

\* uint32(v) of a signed v in -2^31 .. 2^31-1: two's complement, mod 2^32.
ToUint32(v) ==
    Bind(v, LAMBDA n :
        IF n >= 0 THEN U32(n \div 65536, n % 65536)
        ELSE U32(65535 - ((-(n + 1)) \div 65536), 65535 - ((-(n + 1)) % 65536)))

\* x <= 0 on a uint32: only zero is.
U32LeqZero(x) == x.hi = 0 /\ x.lo = 0

\* byte(n): the low eight bits.
ToByte(n) == n % 256

\* uint8(runtime.NumCPU() / 2)
ThreadsOf(numCPU) == (numCPU \div 2) % 256

\* One decimal long-division step on a two-limb uint32: <<quotient, remainder>>.
U32DivMod10(x) ==
    LET t == (x.hi % 10) * 65536 + x.lo
    IN  <<U32(x.hi \div 10, t \div 10), t % 10>>

\* fmt's %d of a uint32, most significant digit first.
RECURSIVE FormatDigits(_)
FormatDigits(x) ==
    Bind(U32DivMod10(x), LAMBDA qr :
        IF qr[1].hi = 0 /\ qr[1].lo = 0 THEN <<48 + qr[2]>>
        ELSE FormatDigits(qr[1]) \o <<48 + qr[2]>>)

FormatUint32(x) == Bind(x, LAMBDA v : FormatDigits(v))

---------------------------------------------------------------------------
(* strconv.ParseInt(s, 10, bitSize) *)

IsDigit(c) == c >= 48 /\ c <= 57

\* -2^(bitSize-1) for the two sizes the code asks for.
MinIntOf(bitSize) == IF bitSize = 8 THEN -128 ELSE -2147483647 - 1

\* The digits of s from position i on, accumulated as a negative number so that
\* the magnitude 2^(bitSize-1) is representable; ok is FALSE on a non-digit or
\* when the magnitude passes 2^(bitSize-1).
RECURSIVE AccumulateDigits(_, _, _, _)
AccumulateDigits(s, i, acc, lim) ==
    IF i > Len(s) THEN [ok |-> TRUE, v |-> acc]
    ELSE IF ~IsDigit(s[i]) THEN [ok |-> FALSE, v |-> 0]
    ELSE LET d == s[i] - 48
         IN  IF acc < (lim + d + 9) \div 10 THEN [ok |-> FALSE, v |-> 0]
             ELSE AccumulateDigits(s, i + 1, acc * 10 - d, lim)

\* The text after the optional sign must be digits; a negative value may reach
\* -2^(bitSize-1), a positive one only 2^(bitSize-1) - 1.
ParseDigits(s, first, neg, lim) ==
    Bind(AccumulateDigits(s, first, 0, lim), LAMBDA r :
        IF first > Len(s) \/ ~r.ok THEN [err |-> TRUE, val |-> 0]
        ELSE IF neg THEN [err |-> FALSE, val |-> r.v]
        ELSE IF r.v = lim THEN [err |-> TRUE, val |-> 0]
        ELSE [err |-> FALSE, val |-> -r.v])

ParseInt(str, bitSize) ==
    Bind(str, LAMBDA s :
        IF Len(s) = 0 THEN [err |-> TRUE, val |-> 0]
        ELSE ParseDigits(s, IF s[1] = 45 \/ s[1] = 43 THEN 2 ELSE 1, s[1] = 45,
                         MinIntOf(bitSize)))

---------------------------------------------------------------------------
(* strings.Split(s, sep) for a one-byte separator *)

\* The positions of the separator, and the k-th of them in increasing order
\* (0 before the first, Len(s) + 1 after the last).
SepPositions(s, sep) == {i \in 1..Len(s) : s[i] = sep}

NthSep(s, sep, k) ==
    LET S == SepPositions(s, sep)
    IN  IF k = 0 THEN 0
        ELSE IF k > Cardinality(S) THEN Len(s) + 1
        ELSE CHOOSE p \in S : Cardinality({q \in S : q < p}) = k - 1

\* The substrings between the separators, in order: one more than separators.
Split(str, sep) ==
    Bind(str, LAMBDA s :
        [k \in 1..(Cardinality(SepPositions(s, sep)) + 1) |->
            SubSeq(s, NthSep(s, sep, k - 1) + 1, NthSep(s, sep, k) - 1)])

---------------------------------------------------------------------------
(* encoding/base64, StdEncoding: padded, not strict *)

encodeStd(i) ==
    IF i < 26 THEN 65 + i
    ELSE IF i < 52 THEN 97 + (i - 26)
    ELSE IF i < 62 THEN 48 + (i - 52)
    ELSE IF i = 62 THEN 43 ELSE 47

\* decodeMap: the 6-bit value of an alphabet byte, 255 for any other byte.
decodeMap(c) ==
    IF c >= 65 /\ c <= 90 THEN c - 65
    ELSE IF c >= 97 /\ c <= 122 THEN c - 97 + 26
    ELSE IF c >= 48 /\ c <= 57 THEN c - 48 + 52
    ELSE IF c = 43 THEN 62
    ELSE IF c = 47 THEN 63
    ELSE 255

RECURSIVE EncodeFrom(_, _)
EncodeFrom(src, i) ==
    LET left == Len(src) - i + 1
    IN  IF left <= 0 THEN <<>>
        ELSE IF left >= 3 THEN
            LET val == src[i] * 65536 + src[i + 1] * 256 + src[i + 2]
            IN  <<encodeStd(val \div 262144), encodeStd((val \div 4096) % 64),
                  encodeStd((val \div 64) % 64), encodeStd(val % 64)>>
                \o EncodeFrom(src, i + 3)
        ELSE IF left = 2 THEN
            LET val == src[i] * 65536 + src[i + 1] * 256
            IN  <<encodeStd(val \div 262144), encodeStd((val \div 4096) % 64),
                  encodeStd((val \div 64) % 64), padChar>>
        ELSE
            LET val == src[i] * 65536
            IN  <<encodeStd(val \div 262144), encodeStd((val \div 4096) % 64),
                  padChar, padChar>>

EncodeToString(src) == Bind(src \o <<>>, LAMBDA v : EncodeFrom(v, 1))

IsNewline(c) == c = 10 \/ c = 13

\* The number of alphabet bytes at the head of s, counted up to four.
DataRun(s, i) ==
    IF i > Len(s) \/ decodeMap(s[i]) = 255 THEN 0
    ELSE IF i + 1 > Len(s) \/ decodeMap(s[i + 1]) = 255 THEN 1
    ELSE IF i + 2 > Len(s) \/ decodeMap(s[i + 2]) = 255 THEN 2
    ELSE IF i + 3 > Len(s) \/ decodeMap(s[i + 3]) = 255 THEN 3
    ELSE 4

\* decodeQuantum, one quantum after the other, on input without \r and \n.
\* The last quantum keeps dlen-1 bytes and does not look at the bits of its last
\* character that fall outside them (the encoding is not Strict()).
RECURSIVE DecodeFrom(_, _)
DecodeFrom(s, i) ==
    LET j == DataRun(s, i)
        bad == [err |-> TRUE, bytes |-> <<>>]
        v(k) == IF k < j THEN decodeMap(s[i + k]) ELSE 0
        val == v(0) * 262144 + v(1) * 4096 + v(2) * 64 + v(3)
        b0 == val \div 65536
        b1 == (val \div 256) % 256
        b2 == val % 256
    IN  IF i > Len(s) THEN [err |-> FALSE, bytes |-> <<>>]
        ELSE IF j = 4 THEN
            Bind(DecodeFrom(s, i + 4), LAMBDA rest :
                [err |-> rest.err, bytes |-> <<b0, b1, b2>> \o rest.bytes])
        ELSE IF i + j > Len(s) THEN bad          \* input ends inside a quantum
        ELSE IF s[i + j] # padChar THEN bad      \* a byte outside the alphabet
        ELSE IF j < 2 THEN bad                   \* incorrect padding
        ELSE IF j = 2 THEN
            IF i + 3 > Len(s) \/ s[i + 3] # padChar THEN bad
            ELSE IF i + 3 < Len(s) THEN bad      \* trailing garbage
            ELSE [err |-> FALSE, bytes |-> <<b0>>]
        ELSE IF i + 3 < Len(s) THEN bad          \* trailing garbage
        ELSE [err |-> FALSE, bytes |-> <<b0, b1>>]

DecodeString(s) ==
    Bind(SelectSeq(s, LAMBDA c : ~IsNewline(c)), LAMBDA t : DecodeFrom(t, 1))

---------------------------------------------------------------------------
(* The cryptographic primitives: a deterministic function of the arguments *)

\* The state is a pair of residues; both moduli are below 2^15.5 so that every
\* product stays inside TLC's integers.
MixPrimeA == 46337
MixPrimeB == 46327

\* Absorbing one byte x maps a residue s to (m * s + x + 1) % P.  The map of a
\* whole segment seq[lo..hi] is affine, <<a, b>> for s |-> (a * s + b) % P, and
\* is composed from the maps of its halves.
RECURSIVE Affine(_, _, _, _, _)
Affine(seq, lo, hi, m, P) ==
    IF lo > hi THEN <<1, 0>>
    ELSE IF lo = hi THEN <<m, (seq[lo] + 1) % P>>
    ELSE Bind(<<Affine(seq, lo, (lo + hi) \div 2, m, P),
                Affine(seq, ((lo + hi) \div 2) + 1, hi, m, P)>>, LAMBDA lr :
             <<(lr[2][1] * lr[1][1]) % P, (lr[2][1] * lr[1][2] + lr[2][2]) % P>>)

AbsorbValues(st, seq) ==
    Bind(<<Affine(seq, 1, Len(seq), 251, MixPrimeA),
           Affine(seq, 1, Len(seq), 263, MixPrimeB)>>, LAMBDA f :
        [a |-> (f[1][1] * st.a + f[1][2]) % MixPrimeA,
         b |-> (f[2][1] * st.b + f[2][2]) % MixPrimeB])

Absorb(state, bytes) ==
    Bind(state, LAMBDA st : Bind(bytes \o <<>>, LAMBDA seq : AbsorbValues(st, seq)))

\* A length-prefixed field, so that field boundaries are part of the input.
AbsorbField(state, bytes) ==
    Bind(bytes \o <<>>, LAMBDA seq : Absorb(Absorb(state, <<Len(seq)>>), seq))

\* n bytes of output; the first four hold the state.
Squeeze(state, n) ==
    Bind(state, LAMBDA st :
        [k \in 1..n |->
            IF k = 1 THEN st.a % 256
            ELSE IF k = 2 THEN st.a \div 256
            ELSE IF k = 3 THEN st.b % 256
            ELSE IF k = 4 THEN st.b \div 256
            ELSE ((st.a \div k) + 7 * (st.b % (k + 1)) + 31 * k) % 256] \o <<>>)

Seed(tag) == [a |-> tag, b |-> tag]

\* goargon2.Key (variant 1) and goargon2.IDKey (variant 2).
deriveKey(variant, password, salt, time, memory, threads, keyLen) ==
    Squeeze(
        Absorb(AbsorbField(AbsorbField(Seed(variant), password), salt),
               <<time.hi, time.lo, memory.hi, memory.lo, threads, keyLen>>),
        keyLen)

\* hmac.New(sha256.New, key); Write(msg); Sum(nil)
hmacSHA256(key, msg) ==
    Squeeze(AbsorbField(AbsorbField(Seed(3), key), msg), sha256Size)

\* hmac.Equal: equality of the two byte slices.
hmacEqual(a, b) == a = b

---------------------------------------------------------------------------
(* The argon2 plug-in, src/unnamed/part_000 *)

\* The instance init() registers.
defaultArgon2 ==
    [MemoryPasses |-> argonDefaultMemoryPasses,
     MemorySize |-> argonDefaultMemorySize,
     Mode |-> argonDefaultMode,
     HashSize |-> argonDefaultHashSize]

encodedString(uc) ==
    uc.Mode \o <<58>> \o FormatUint32(uc.MemoryPasses)
            \o <<58>> \o FormatUint32(uc.MemorySize)

argon2Hash(uc, password, salt, threads) ==
    IF uc.Mode = ModeI THEN
        [err |-> noError, params |-> encodedString(uc),
         key |-> deriveKey(1, password, salt, uc.MemoryPasses, uc.MemorySize,
                           threads, uc.HashSize)]
    ELSE IF uc.Mode = ModeID THEN
        [err |-> noError, params |-> encodedString(uc),
         key |-> deriveKey(2, password, salt, uc.MemoryPasses, uc.MemorySize,
                           threads, uc.HashSize)]
    ELSE [err |-> errUnknownHashMod, params |-> <<>>, key |-> nil]

inStrArray(val, array) == \E k \in 1..Len(array) : array[k] = val

\* configureArgon writing through the receiver instead of a copy of it.
configureArgonMutating(uc, mode, hashSize, passes, memory) ==
    IF ~inStrArray(mode, argonModi) \/ hashSize <= 0
       \/ U32LeqZero(passes) \/ U32LeqZero(memory)
    THEN [err |-> errBadParameters, inst |-> nil, recv |-> uc]
    ELSE Bind([Mode |-> mode, HashSize |-> hashSize,
               MemoryPasses |-> passes, MemorySize |-> memory], LAMBDA nc :
             [err |-> noError, inst |-> <<nc>>, recv |-> nc])

\* Returns inst, a pointer (<<nc>>) to the new instance or nil, and recv, the
\* receiver as the call leaves it: nc := *uc is a copy, and the assignments go to
\* the copy.  The comparisons are those of uint32.
configureArgon(uc, mode, hashSize, passes, memory) ==
    IF ~inStrArray(mode, argonModi) \/ hashSize <= 0
       \/ U32LeqZero(passes) \/ U32LeqZero(memory)
    THEN [err |-> errBadParameters, inst |-> nil, recv |-> uc]
    ELSE [err |-> noError,
          inst |-> <<[uc EXCEPT !.Mode = mode, !.HashSize = hashSize,
                                !.MemoryPasses = passes, !.MemorySize = memory]>>,
          recv |-> uc]

Configure(uc, parameters, separator, hashSize) ==
    Bind(Split(parameters, separator) \o <<>>, LAMBDA pars :
        IF Len(pars) < argonNumParameters
        THEN [err |-> errBadParameters, inst |-> nil, recv |-> uc]
        ELSE Bind(<<ParseInt(pars[2], 8), ParseInt(pars[3], 32)>>, LAMBDA n :
            IF n[1].err THEN [err |-> errBadParameters, inst |-> nil, recv |-> uc]
            ELSE IF n[2].err THEN [err |-> errBadParameters, inst |-> nil, recv |-> uc]
            ELSE configureArgon(uc, pars[1], hashSize,
                                ToUint32(n[1].val), ToUint32(n[2].val))))

GetID(uc) == hashID

GetDefaultHashSize(uc) == argonDefaultHashSize

---------------------------------------------------------------------------
(* The encoding engine, src/hash/hash.go *)

\* HashImplementations[id]: found, and the instance the entry points to.
Found(reg, id) == \E e \in reg : e.id = id
Lookup(reg, id) == (CHOOSE e \in reg : e.id = id).impl

\* What a call returns.  panic: the call aborted instead of returning.
\* compared: VerifyHash reached hmacKey; macKey and baseMac are then the key it
\* gave to the HMAC and the stored tag text it decoded.
ret0 ==
    [panic |-> FALSE, err |-> noError, val |-> FALSE, record |-> <<>>,
     compared |-> FALSE, macKey |-> <<>>, tagText |-> <<>>, inst |-> nil]

Panic == [ret0 EXCEPT !.panic = TRUE]
Fail(e) == [ret0 EXCEPT !.err = e]

\* rd is what rand.Read(b) delivered: n, err, and the buffer b.
GenerateRandomBytes(length, rd) ==
    IF rd.err \/ rd.n # length THEN nil ELSE rd.b

\* hmacKey without the hm.Write(key): the tag depends on the prefix only.
hmacKeyUnwritten(params, key) == hmacSHA256(params, <<>>)

hmacKey(params, key) == hmacSHA256(params, key)

\* "$%v$%v$%v$" of the identifier, the parameters and the encoded salt.
Prefix(hashImpl, params, encodedSalt) ==
    <<Separator>> \o hashImpl \o <<Separator>> \o params
    \o <<Separator>> \o encodedSalt \o <<Separator>>

\* Hash from the call of the algorithm on.  h is what hasher.Hash returned.
emitRecord(hashImpl, h, salt) ==
    IF h.err # noError THEN Fail(h.err)
    ELSE Bind(Prefix(hashImpl, h.params,
                     EncodeToString(<<ToByte(Len(h.key))>> \o salt)), LAMBDA prefix :
             [ret0 EXCEPT !.record = prefix \o EncodeToString(hmacKey(prefix, h.key))])

hashRecord(hasher, hashImpl, input, salt, threads) ==
    Bind(argon2Hash(hasher, input, salt, threads), LAMBDA h :
        emitRecord(hashImpl, h, salt))

\* The map lookup yields a nil interface for a missing key, and the method call
\* on it aborts.
Hash(reg, threads, input, rd) ==
    IF ~Found(reg, DefaultAlgo) THEN Panic
    ELSE hashRecord(Lookup(reg, DefaultAlgo), DefaultAlgo, input,
                    GenerateRandomBytes(SaltSize, rd), threads)

noParse ==
    [panic |-> FALSE, err |-> noError, hashImpl |-> nil, params |-> <<>>,
     salt |-> nil, hashSize |-> 0, key |-> <<>>]

\* parseHash once the salt field is decoded; salt[0] on an empty slice aborts
\* (index out of range).
parseDecoded(reg, parts, d) ==
    IF d.err THEN [noParse EXCEPT !.err = errBadHashFormat]
    ELSE IF Len(d.bytes) = 0 THEN [noParse EXCEPT !.panic = TRUE]
    ELSE [noParse EXCEPT !.hashImpl = <<Lookup(reg, parts[2])>>,
                         !.params = parts[3],
                         !.salt = Tail(d.bytes),
                         !.hashSize = d.bytes[1],
                         !.key = parts[5]]

parseHash(reg, h) ==
    Bind(Split(h, Separator) \o <<>>, LAMBDA parts :
        IF Len(parts) < MinHashParts THEN [noParse EXCEPT !.err = errBadHashFormat]
        ELSE IF ~Found(reg, parts[2]) THEN [noParse EXCEPT !.err = errUnknownHashImpl]
        ELSE Bind(DecodeString(parts[4]), LAMBDA d : parseDecoded(reg, parts, d)))

\* VerifyHash up to and including Configure, given what parseHash returned.
\* done: VerifyHash returns ret here.  recv: the registered instance as Configure
\* leaves it (nil when Configure was not called).
configureParsed(p) ==
    IF p.panic THEN [ret |-> Panic, done |-> TRUE, parsed |-> p, recv |-> nil]
    ELSE IF p.err # noError
    THEN [ret |-> Fail(p.err), done |-> TRUE, parsed |-> p, recv |-> nil]
    ELSE Bind(Configure(p.hashImpl[1], p.params, ParameterSeparator, p.hashSize),
              LAMBDA c :
                 IF c.err # noError
                 THEN [ret |-> Fail(c.err), done |-> TRUE, parsed |-> p,
                       recv |-> <<c.recv>>]
                 ELSE [ret |-> [ret0 EXCEPT !.inst = c.inst], done |-> FALSE,
                       parsed |-> p, recv |-> <<c.recv>>])

verifyConfigure(reg, h) == Bind(parseHash(reg, h), LAMBDA p : configureParsed(p))

\* The whole record as the HMAC key, the stored tag included.
macKeyWholeRecord(h, key) == h

\* hash[:len(hash)-len(key)]
macKeyOf(h, key) == SubSeq(h, 1, Len(h) - Len(key))

\* VerifyHash from the derivation on, given what hashImpl.Hash returned.
compareTag(h, key, other) ==
    IF other.err # noError THEN Fail(other.err)
    ELSE Bind(<<macKeyOf(h, key), DecodeString(key)>>, LAMBDA m :
        IF m[2].err
        THEN [ret0 EXCEPT !.compared = TRUE, !.macKey = m[1], !.tagText = key,
                          !.err = errCorruptInput]
        ELSE [ret0 EXCEPT !.compared = TRUE, !.macKey = m[1], !.tagText = key,
                          !.val = hmacEqual(m[2].bytes, hmacKey(m[1], other.key))])

verifyCompare(h, input, threads, hashImpl, salt, key) ==
    Bind(argon2Hash(hashImpl, input, salt, threads), LAMBDA other :
        compareTag(h, key, other))

VerifyHash(reg, threads, h, input) ==
    Bind(verifyConfigure(reg, h), LAMBDA c :
        IF c.done THEN c.ret
        ELSE verifyCompare(h, input, threads, c.ret.inst[1], c.parsed.salt,
                           c.parsed.key))

NeedsRehash(reg, h) ==
    Bind(parseHash(reg, h), LAMBDA p :
        IF p.panic THEN Panic
        ELSE IF p.err # noError THEN Fail(p.err)
        ELSE [ret0 EXCEPT !.val = (GetID(p.hashImpl[1]) # DefaultAlgo
                                   /\ Len(p.salt) < SaltSize
                                   /\ p.hashSize < GetDefaultHashSize(p.hashImpl[1]))])

---------------------------------------------------------------------------
(* The inputs the callers draw from *)

Threads == 1..NumThreads

\* "pw1", "pw2", ...
Password(k) == <<112, 119, 48 + k>>
Passwords == {Password(k) : k \in 1..NumPasswords}

\* What rand.Read can deliver for a buffer of SaltSize bytes: all of it, or an
\* error after filling part of it.
Salt(k) == [i \in 1..SaltSize |-> (k * 37 + i * 11) % 256]
Reads ==
    {[n |-> SaltSize, err |-> FALSE, b |-> Salt(k)] : k \in 1..NumSalts}
    \cup {[n |-> 0, err |-> TRUE, b |-> [i \in 1..SaltSize |-> 0]],
          [n |-> 4, err |-> TRUE, b |-> [i \in 1..SaltSize |-> IF i <= 4 THEN 7 ELSE 0]]}

Join(id, params, saltText, tagText) ==
    <<Separator>> \o id \o <<Separator>> \o params \o <<Separator>> \o saltText
    \o <<Separator>> \o tagText

DefaultParams == <<105, 100, 58, 52, 58, 54, 53, 53, 51, 54>>   \* "id:4:65536"
SomeTag == <<65, 65, 65, 65>>                                   \* "AAAA"

\* An instance with weaker settings than the default: mode i, 2 passes, 16 KiB,
\* 16-byte keys; and the record it wrote for a 4-byte salt.
weakArgon2 ==
    [MemoryPasses |-> U32(0, 2), MemorySize |-> U32(0, 16), Mode |-> ModeI,
     HashSize |-> 16]
WeakRecord(input, threads) ==
    hashRecord(weakArgon2, hashID, input, <<9, 8, 7, 6>>, threads).record

\* A well-formed default record followed by one more separator and field.
LongRecord(input, threads) ==
    hashRecord(defaultArgon2, hashID, input, Salt(1), threads).record
    \o <<Separator, 120>>

\* Records a caller may hold that Hash did not just return.
GivenRecords(threads) ==
    {WeakRecord(p, threads) : p \in Passwords}
    \cup {LongRecord(p, threads) : p \in Passwords}
    \cup {<<>>,
          <<Separator>> \o hashID \o <<Separator>> \o DefaultParams
              \o <<Separator, 73, 65, 61, 61>>,                      \* four fields
          Join(<<115, 99, 114, 121, 112, 116>>, DefaultParams,
               <<73, 65, 61, 61>>, SomeTag),                         \* "scrypt"
          Join(hashID, DefaultParams, <<>>, SomeTag),                \* empty salt field
          Join(hashID, DefaultParams, <<10>>, SomeTag),              \* "\n"
          Join(hashID, DefaultParams, <<33>>, SomeTag),              \* "!"
          Join(hashID, DefaultParams, <<73, 65, 61, 61>>, SomeTag),  \* length byte only
          Join(hashID, DefaultParams, <<65, 65, 61, 61>>, SomeTag),  \* length byte 0
          Join(hashID, <<120, 58, 52, 58, 56>>,
               <<73, 65, 61, 61>>, SomeTag),                         \* "x:4:8"
          Join(hashID, <<105, 100, 58, 45, 49, 58, 56>>,
               <<73, 65, 61, 61>>, SomeTag)}                         \* "id:-1:8"

\* Parameter strings and hash sizes for direct calls of Configure.
ParamStrings ==
    {DefaultParams,
     <<105, 58, 49, 58, 56>>,                                  \* "i:1:8"
     <<120, 58, 52, 58, 56>>,                                  \* "x:4:8"
     <<105, 100, 58, 48, 58, 56>>,                             \* "id:0:8"
     <<105, 100, 58, 45, 49, 58, 56>>,                         \* "id:-1:8"
     <<105, 100, 58, 45, 49, 50, 56, 58, 56>>,                 \* "id:-128:8"
     <<105, 100, 58, 52, 58, 48>>,                             \* "id:4:0"
     <<105, 100, 58, 52, 58, 45, 56>>,                         \* "id:4:-8"
     <<105, 100, 58, 52>>,                                     \* "id:4"
     <<105, 100, 58, 97, 58, 56>>,                             \* "id:a:8"
     <<105, 100, 58, 49, 50, 56, 58, 56>>,                     \* "id:128:8"
     <<105, 100, 58, 52, 58, 50, 49, 52, 55, 52, 56, 51, 54, 52, 56>>,  \* "id:4:2147483648"
     <<105, 100, 58, 43, 52, 58, 56, 58, 57>>}                 \* "id:+4:8:9"
HashSizes == {0, 16, 32}

\* The bytes a character c of a record may be replaced by: separators, padding,
\* a line break, a byte outside every alphabet, and the next character of the
\* base64 alphabet (the next byte for a byte outside it).
NextChar(c) ==
    IF decodeMap(c) = 255 THEN (c + 1) % 256
    ELSE encodeStd((decodeMap(c) + 1) % 64)
TamperBytes(c) == {Separator, ParameterSeparator, padChar, 10, 33, 65, NextChar(c)} \ {c}

\* The field (0 .. 4) position i of record h lies in: the separators before it.
FieldAt(h, i) == Cardinality({q \in SepPositions(h, Separator) : q < i})

---------------------------------------------------------------------------
(* The state machine: one caller.  The caller obtains a record (from Hash, or *)
(* from elsewhere), may have one character of it replaced, calls VerifyHash  *)
(* or NeedsRehash on it, and lets go of it; or calls Configure directly.     *)

noCall ==
    [op |-> "none", input |-> <<>>, rd |-> [n |-> 0, err |-> FALSE, b |-> <<>>],
     params |-> <<>>, hashSize |-> 0, ret |-> ret0]
noOrigin == [kind |-> "none", input |-> <<>>, field |-> 0, pos |-> 0]
idleLoc == [h |-> <<>>, input |-> <<>>, inst |-> nil, salt |-> nil, key |-> <<>>]

Init ==
    /\ HashImplementations = {}
    /\ argonThreads \in {ThreadsOf(n) : n \in 2..MaxCPU}
    /\ hash = <<>>
    /\ origin = noOrigin
    /\ result = noCall
    /\ pc = [t \in Threads |-> "idle"]
    /\ loc = [t \in Threads |-> idleLoc]

\* The plug-in's init(): the default instance is registered under hashID.
init ==
    /\ ~Found(HashImplementations, hashID)
    /\ HashImplementations' =
           HashImplementations \cup {[id |-> hashID, impl |-> defaultArgon2]}
    /\ UNCHANGED <<argonThreads, hash, origin, result, pc, loc>>

\* The registry after a Configure call on the instance registered under id.
Stored(reg, recv) ==
    IF recv = nil THEN reg ELSE {[e EXCEPT !.impl = recv[1]] : e \in reg}

EmptyHanded == origin.kind = "none" /\ result.op = "none"
Holding == origin.kind # "none" /\ result.op \in {"none", "Hash"}

CallHash(input, rd) ==
    \E r \in {Hash(HashImplementations, argonThreads, input, rd)} :
        /\ EmptyHanded
        /\ result' = [noCall EXCEPT !.op = "Hash", !.input = input, !.rd = rd, !.ret = r]
        /\ IF r.panic \/ r.err # noError
           THEN UNCHANGED <<hash, origin>>
           ELSE /\ hash' = r.record
                /\ origin' = [noOrigin EXCEPT !.kind = "Hash", !.input = input]
        /\ UNCHANGED <<HashImplementations, argonThreads, pc, loc>>

\* The caller is handed a record from elsewhere.
Present(r) ==
    /\ EmptyHanded
    /\ hash' = r
    /\ origin' = [noOrigin EXCEPT !.kind = "given"]
    /\ result' = noCall
    /\ UNCHANGED <<HashImplementations, argonThreads, pc, loc>>

\* One character inside a field of a record Hash returned is replaced.
Tamper(i, c) ==
    /\ origin.kind = "Hash"
    /\ result.op = "Hash"
    /\ hash[i] # Separator
    /\ c \in TamperBytes(hash[i])
    /\ hash' = [hash EXCEPT ![i] = c]
    /\ origin' = [origin EXCEPT !.kind = "tampered", !.field = FieldAt(hash, i), !.pos = i]
    /\ result' = noCall
    /\ UNCHANGED <<HashImplementations, argonThreads, pc, loc>>

CallVerifyHash(input) ==
    /\ Holding
    /\ \E c \in {verifyConfigure(HashImplementations, hash)} :
        /\ result' = [noCall EXCEPT
               !.op = "VerifyHash", !.input = input,
               !.ret = IF c.done THEN c.ret
                       ELSE verifyCompare(hash, input, argonThreads, c.ret.inst[1],
                                          c.parsed.salt, c.parsed.key)]
        /\ HashImplementations' = Stored(HashImplementations, c.recv)
    /\ UNCHANGED <<argonThreads, hash, origin, pc, loc>>

CallNeedsRehash ==
    /\ Holding
    /\ result' = [noCall EXCEPT !.op = "NeedsRehash",
                                !.ret = NeedsRehash(HashImplementations, hash)]
    /\ UNCHANGED <<HashImplementations, argonThreads, hash, origin, pc, loc>>

\* A direct call of the registered instance's Configure.
CallConfigure(params, hashSize) ==
    /\ EmptyHanded
    /\ Found(HashImplementations, hashID)
    /\ \E c \in {Configure(Lookup(HashImplementations, hashID), params,
                           ParameterSeparator, hashSize)} :
        /\ result' = [noCall EXCEPT
               !.op = "Configure", !.params = params, !.hashSize = hashSize,
               !.ret = [ret0 EXCEPT !.err = c.err, !.inst = c.inst]]
        /\ HashImplementations' = Stored(HashImplementations, <<c.recv>>)
    /\ UNCHANGED <<argonThreads, hash, origin, pc, loc>>

\* The caller lets go of the record and of the last result.
Drop ==
    /\ ~EmptyHanded
    /\ hash' = <<>>
    /\ origin' = noOrigin
    /\ result' = noCall
    /\ UNCHANGED <<HashImplementations, argonThreads, pc, loc>>

Next ==
    \/ init
    \/ (EmptyHanded /\ \E input \in Passwords, rd \in Reads : CallHash(input, rd))
    \/ (EmptyHanded /\ \E r \in GivenRecords(argonThreads) : Present(r))
    \/ (origin.kind = "Hash"
        /\ \E i \in 1..Len(hash) : \E c \in TamperBytes(hash[i]) : Tamper(i, c))
    \/ (Holding /\ \E input \in Passwords : CallVerifyHash(input))
    \/ CallNeedsRehash
    \/ (EmptyHanded
        /\ \E params \in ParamStrings, hashSize \in HashSizes :
               CallConfigure(params, hashSize))
    \/ Drop

Spec == Init /\ [][Next]_vars

---------------------------------------------------------------------------
(* The state machine: concurrent callers.  Every thread calls Hash,         *)
(* VerifyHash and NeedsRehash at will.  The registry is the only state the   *)
(* calls share; VerifyHash reads it when it configures and works on the      *)
(* instance Configure returned from then on, so a call of another thread may *)
(* run between the two halves.                                               *)

\* The records the threads verify: default and weaker settings, a negative
\* pass count, an unknown mode.
SharedRecords(threads) ==
    {hashRecord(defaultArgon2, hashID, Password(1), Salt(1), threads).record,
     WeakRecord(Password(1), threads),
     Join(hashID, <<105, 58, 45, 49, 58, 56>>, <<69, 65, 107, 61>>, SomeTag),  \* "i:-1:8"
     Join(hashID, <<120, 58, 52, 58, 56>>, <<73, 65, 61, 61>>, SomeTag)}       \* "x:4:8"

ThreadHash(t, input, rd) ==
    /\ pc[t] = "idle"
    /\ result' = [noCall EXCEPT !.op = "Hash", !.input = input, !.rd = rd,
                                !.ret = Hash(HashImplementations, argonThreads, input, rd)]
    /\ UNCHANGED <<HashImplementations, argonThreads, hash, origin, pc, loc>>

\* VerifyHash through Configure: it returns here on an error, and otherwise goes
\* on with the instance Configure returned.
ThreadConfigure(t, h, input) ==
    /\ pc[t] = "idle"
    /\ \E c \in {verifyConfigure(HashImplementations, h)} :
        /\ HashImplementations' = Stored(HashImplementations, c.recv)
        /\ IF c.done
           THEN /\ result' = [noCall EXCEPT !.op = "VerifyHash", !.input = input,
                                            !.ret = c.ret]
                /\ UNCHANGED <<pc, loc>>
           ELSE /\ pc' = [pc EXCEPT ![t] = "configured"]
                /\ loc' = [loc EXCEPT ![t] = [h |-> h, input |-> input,
                                             inst |-> c.ret.inst,
                                             salt |-> c.parsed.salt,
                                             key |-> c.parsed.key]]
                /\ UNCHANGED result
    /\ UNCHANGED <<argonThreads, hash, origin>>

\* The rest of VerifyHash: the derivation and the comparison.
ThreadCompare(t) ==
    /\ pc[t] = "configured"
    /\ result' = [noCall EXCEPT
           !.op = "VerifyHash", !.input = loc[t].input,
           !.ret = verifyCompare(loc[t].h, loc[t].input, argonThreads,
                                 loc[t].inst[1], loc[t].salt, loc[t].key)]
    /\ pc' = [pc EXCEPT ![t] = "idle"]
    /\ loc' = [loc EXCEPT ![t] = idleLoc]
    /\ UNCHANGED <<HashImplementations, argonThreads, hash, origin>>

ThreadNeedsRehash(t, h) ==
    /\ pc[t] = "idle"
    /\ result' = [noCall EXCEPT !.op = "NeedsRehash",
                                !.ret = NeedsRehash(HashImplementations, h)]
    /\ UNCHANGED <<HashImplementations, argonThreads, hash, origin, pc, loc>>

NextConc ==
    \/ init
    \/ \E t \in Threads, rd \in Reads : ThreadHash(t, Password(1), rd)
    \/ \E t \in Threads, h \in SharedRecords(argonThreads) :
           ThreadConfigure(t, h, Password(1))
    \/ \E t \in Threads : ThreadCompare(t)
    \/ \E t \in Threads, h \in SharedRecords(argonThreads) : ThreadNeedsRehash(t, h)

SpecConc == Init /\ [][NextConc]_vars

---------------------------------------------------------------------------
(* The claims about one caller, checked under Spec *)

Returned(r) == ~r.panic /\ r.err = noError
Verified == result.op = "VerifyHash"

\* C1: a record Hash returned, whatever rand.Read delivered for its salt, is
\* accepted by VerifyHash with the password it was made from: the call returns
\* true and no error.
C1_RoundTrip ==
    (Verified /\ origin.kind = "Hash" /\ result.input = origin.input)
        => (Returned(result.ret) /\ result.ret.val)

C1_Witness ==
    /\ Verified /\ origin.kind = "Hash" /\ result.input = origin.input
    /\ result.ret.compared /\ result.ret.val

\* C2: VerifyHash of a record Hash returned, with any other password, returns
\* false as a result: no error, no abort, and not true.
C2_WrongPassword ==
    (Verified /\ origin.kind = "Hash" /\ result.input # origin.input)
        => (Returned(result.ret) /\ ~result.ret.val)

C2_Witness ==
    /\ Verified /\ origin.kind = "Hash" /\ result.input # origin.input
    /\ result.ret.compared /\ ~result.ret.val

\* C3: after one character inside the algorithm-ID, parameter, salt or tag field
\* of a record Hash returned was replaced, VerifyHash with the original password
\* returns false or an error, never true.
C3_TamperDetected ==
    (Verified /\ origin.kind = "tampered" /\ origin.field \in 1..4
     /\ result.input = origin.input)
        => ~(Returned(result.ret) /\ result.ret.val)

\* The record has five or more fields, the default identifier in field 1 and a
\* salt field that decodes without error, and the default is registered.
DefaultRecord(reg, h) ==
    Bind(Split(h, Separator) \o <<>>, LAMBDA parts :
        /\ Len(parts) >= MinHashParts
        /\ parts[2] = DefaultAlgo
        /\ Found(reg, DefaultAlgo)
        /\ ~DecodeString(parts[4]).err)

\* C4: NeedsRehash returns false, with no error, for every such record, whatever
\* its salt field decodes to.
C4_DefaultNeverRehashed ==
    (result.op = "NeedsRehash" /\ DefaultRecord(HashImplementations, hash))
        => (Returned(result.ret) /\ ~result.ret.val)

\* The parameter string has its three fields and one of them, or the hash size,
\* is what the claim says must be refused: an unknown mode, passes or memory
\* that read as an integer <= 0 (8 and 32 bits), or a hash size of 0.
MustBeRefused(params, hashSize) ==
    Bind(Split(params, ParameterSeparator) \o <<>>, LAMBDA pars :
        /\ Len(pars) >= argonNumParameters
        /\ \/ ~inStrArray(pars[1], argonModi)
           \/ Bind(ParseInt(pars[2], 8), LAMBDA n : ~n.err /\ n.val <= 0)
           \/ Bind(ParseInt(pars[3], 32), LAMBDA n : ~n.err /\ n.val <= 0)
           \/ hashSize = 0)

\* C5: Configure fails with errBadParameters and returns no instance for every
\* such input.
C5_ConfigureRefuses ==
    (result.op = "Configure" /\ MustBeRefused(result.params, result.hashSize))
        => (result.ret.err = errBadParameters /\ result.ret.inst = nil)

\* C6: with the default algorithm registered, Hash returns an error and no record
\* whenever rand.Read did not deliver all SaltSize bytes.
C6_NoSaltNoRecord ==
    (result.op = "Hash" /\ Found(HashImplementations, DefaultAlgo)
     /\ (result.rd.err \/ result.rd.n # SaltSize))
        => (~result.ret.panic /\ result.ret.err # noError /\ result.ret.record = <<>>)

\* C7: with nothing registered under the default identifier, Hash returns the
\* "unknown hash implementation" error to its caller.
C7_UnknownDefault ==
    (result.op = "Hash" /\ ~Found(HashImplementations, DefaultAlgo))
        => (~result.ret.panic /\ result.ret.err = errUnknownHashImpl)

\* C9: whenever VerifyHash recomputes the tag, the HMAC key it uses is the record
\* from its start through the separator that ends field 3, and the tag text it
\* decodes is field 4; also for records of more than five fields.
C9_MacKeyIsPrefix ==
    (Verified /\ result.ret.compared)
        => /\ result.ret.macKey = SubSeq(hash, 1, NthSep(hash, Separator, 4))
           /\ result.ret.tagText = Split(hash, Separator)[5]

\* C10: VerifyHash and NeedsRehash return a boolean or an error for every record;
\* they never abort.
C10_NeverAborts ==
    result.op \in {"VerifyHash", "NeedsRehash"} => ~result.ret.panic

---------------------------------------------------------------------------
(* The claim about concurrent callers, checked under SpecConc *)

\* C8: whatever the threads have called and wherever they stand, the instance
\* in the registry is the default one (mode id, 4 passes, 65536 KiB, 32 bytes),
\* and a record Hash returns carries the default parameter string.
C8_RegistryKeepsDefault ==
    /\ \A e \in HashImplementations : e.impl = defaultArgon2
    /\ (result.op = "Hash" /\ Returned(result.ret))
           => Split(result.ret.record, Separator)[3] = DefaultParams

\* A thread stands between Configure and the derivation with an instance that is
\* not the default one, and a Hash call has returned a record.
C8_Witness ==
    /\ \E t \in Threads : pc[t] = "configured" /\ loc[t].inst # <<defaultArgon2>>
    /\ result.op = "Hash" /\ Returned(result.ret)

=============================================================================
